---- MODULE Spec2Model ----
(***************************************************************************)
(* The "phototripper" photo organizer (scripts/phototripper.py with the    *)
(* _tripper package): greedy geo-clustering of the scanned pictures        *)
(* (collect), then the per-picture resolution of a place name from the     *)
(* geocode / gplaces candidates of the picture's cluster (move).           *)
(*                                                                         *)
(* Numbers.  The program computes in IEEE doubles; the model computes in   *)
(* integers.  Coordinates are given in metres of arc (one unit is          *)
(* 1/EARTH_RADIUS radian), every picture site lies within 30 km of the     *)
(* point (0, 0) and on a 600 m grid, so that the mean of up to six sites   *)
(* is again an integer.  Distances and radii are whole metres, every       *)
(* division and square root rounding down.                                 *)
(***************************************************************************)
EXTENDS Integers, Sequences, FiniteSets, TLC

\* Number of picture files one scan meets, at most.
MaxPictures == 5

\* Number of picture files of a whole run, at most.
MaxRunPictures == 2

\* Number of records the two services answer for one cluster, at most.
MaxCandidates == 2

\* Number of 600 m steps, each way from (0, 0), of the grid the circles and
\* the viewports of single candidates are taken from.
MaxGridSteps == 1

\* Number of picture files of a scan along one road, at most.
MaxRoadPictures == 6

\* --search-radius, default=3000 (metres).
search_radius == 3000

\* The sites a scanned picture can have been taken at (lat, lon).
PictureSites ==
    { <<0, 0>>, <<0, 2400>>, <<0, 3600>>, <<0, 4800>>, <<0, 6000>>, <<1800, 0>> }

\* The sum of f[x] over the finite set S.
RECURSIVE SumOver(_, _)
SumOver(S, f) ==
    IF S = {} THEN 0
    ELSE LET x == CHOOSE y \in S : TRUE
         IN  f[x] + SumOver(S \ {x}, f)

\* The sum of the elements of a sequence of numbers.
RECURSIVE SumSeq(_)
SumSeq(s) == IF s = <<>> THEN 0 ELSE Head(s) + SumSeq(Tail(s))

\* math.sqrt on whole numbers: the largest r with r * r <= n, by bisection
\* on lo <= r < hi.
RECURSIVE SqrtBetween(_, _, _)
SqrtBetween(n, lo, hi) ==
    IF hi - lo <= 1 THEN lo
    ELSE LET mid == (lo + hi) \div 2
         IN  IF mid * mid <= n THEN SqrtBetween(n, mid, hi)
                               ELSE SqrtBetween(n, lo, mid)

sqrt(n) == SqrtBetween(n, 0, 46341)

max(a, b) == IF a >= b THEN a ELSE b

\* common.haversine.  With coordinates in metres of arc and both points
\* within 30 km of (0, 0), cos(lat) is 1 to five digits and asin(sqrt(a))
\* is sqrt(a) to eight, so that the great-circle distance is the planar
\* one: a = (d_lat / 2)^2 + (d_lon / 2)^2 and the result 2 * sqrt(a).
haversine(latlon1, latlon2) ==
    LET d_lat == latlon2[1] - latlon1[1]
        d_lon == latlon2[2] - latlon1[2]
    IN  sqrt(d_lat * d_lat + d_lon * d_lon)

\* a * b / c rounded down, for 0 <= a, 0 <= b and 0 < c with c * b within
\* the machine's integers.
MulDiv(a, b, c) == (a \div c) * b + ((a % c) * b) \div c

min(a, b) == IF a <= b THEN a ELSE b

\* The element i of a sequence is x, for some i.
In(x, s) == \E i \in 1..Len(s) : s[i] = x

(***************************************************************************)
(* _tripper/location.py: the circle of a cluster against the viewport of   *)
(* a candidate.  Areas are in units of 100 m2, factors in hundredths.      *)
(***************************************************************************)

\* num_simulations = 1000
num_simulations == 1000

\* _rect_area(sw, ne): "height" is haversine(sw, ne), the diagonal.
rect_area_of(sw, ne) ==
    LET height  == haversine(sw, ne)
        mid_lat == (sw[1] + ne[1]) \div 2
        width   == haversine(<<mid_lat, sw[2]>>, <<mid_lat, ne[2]>>)
    IN  (height * width) \div 100

\* The point of the rectangle nearest to a point.
nearest_in_rect(latlon, rect_ne, rect_sw) ==
    << max(rect_sw[1], min(latlon[1], rect_ne[1])),
       max(rect_sw[2], min(latlon[2], rect_ne[2])) >>

\* The numbers of the num_simulations random.uniform points of the
\* rectangle that can fall within circle_r of circle_c: all of them when
\* the whole rectangle does, none when no point of it does or when the
\* circle is a single point of a larger rectangle, any number otherwise (of
\* which the model takes none, half and all).
points_in_circle_drawn(circle_c, circle_r, rect_ne, rect_sw) ==
    LET corners == { rect_sw, <<rect_sw[1], rect_ne[2]>>,
                     rect_ne, <<rect_ne[1], rect_sw[2]>> }
    IN  IF \A latlon \in corners : haversine(latlon, circle_c) <= circle_r
        THEN {num_simulations}
        ELSE IF \/ haversine(nearest_in_rect(circle_c, rect_ne, rect_sw), circle_c)
                       > circle_r
                \/ circle_r = 0
        THEN {0}
        ELSE {0, num_simulations \div 2, num_simulations}

\* The status with not-intersecting looked at before circle-inside-rect.
status_of_far_first(rect_inside_circle, circle_inside_rect, shapes_dont_intersect) ==
    IF rect_inside_circle THEN "rect-inside-circle"
    ELSE IF shapes_dont_intersect THEN "not-intersecting"
    ELSE IF circle_inside_rect THEN "circle-inside-rect"
    ELSE "intersecting"

\* _IntersectionAnalysis.__init__: the if / elif chain setting self.status.
status_of(rect_inside_circle, circle_inside_rect, shapes_dont_intersect) ==
    IF rect_inside_circle THEN "rect-inside-circle"
    ELSE IF circle_inside_rect THEN "circle-inside-rect"
    ELSE IF shapes_dont_intersect THEN "not-intersecting"
    ELSE "intersecting"

\* The number of points found taken as it is.
points_in_circle_unfixed(circle_inside_rect, drawn) == drawn

\* "Fix the simulation for the circle within a very big rect": the number
\* of points the fraction is taken of.
points_in_circle_fixed(circle_inside_rect, drawn) ==
    IF circle_inside_rect /\ drawn = 0 THEN 1 ELSE drawn

\* _IntersectionAnalysis.__init__, drawn being the number of random points
\* found in the circle by the loop of PART B.
IntersectionAnalysis(circle_c, circle_r, rect_ne, rect_sw, drawn) ==
    LET rect_se == <<rect_sw[1], rect_ne[2]>>
        rect_nw == <<rect_ne[1], rect_sw[2]>>
        corners == {rect_sw, rect_se, rect_ne, rect_nw}
        rect_inside_circle ==
            \A latlon \in corners : haversine(circle_c, latlon) <= circle_r
        is_center_in_rect ==
            /\ rect_sw[1] <= circle_c[1] /\ circle_c[1] <= rect_ne[1]
            /\ rect_sw[2] <= circle_c[2] /\ circle_c[2] <= rect_ne[2]
        dist_to_top    == haversine(circle_c, <<rect_ne[1], circle_c[2]>>)
        dist_to_bottom == haversine(circle_c, <<rect_sw[1], circle_c[2]>>)
        dist_to_left   == haversine(circle_c, <<circle_c[1], rect_sw[2]>>)
        dist_to_right  == haversine(circle_c, <<circle_c[1], rect_ne[2]>>)
        circle_inside_rect ==
            /\ is_center_in_rect
            /\ min(min(dist_to_top, dist_to_bottom),
                   min(dist_to_left, dist_to_right)) >= circle_r
        rect_c == << (rect_sw[1] + rect_ne[1]) \div 2,
                     (rect_sw[2] + rect_ne[2]) \div 2 >>
        distance_to_center == haversine(circle_c, rect_c)
        shapes_dont_intersect == distance_to_center > circle_r
        circle_area == MulDiv(circle_r * circle_r, 355, 11300)
        rect_area   == rect_area_of(rect_sw, rect_ne)
        points_in_circle == points_in_circle_fixed(circle_inside_rect, drawn)
    IN  [ circle_center      |-> circle_c,
          circle_radius      |-> circle_r,
          distance_to_center |-> distance_to_center,
          status             |->
              status_of(rect_inside_circle, circle_inside_rect,
                        shapes_dont_intersect),
          circle_area        |-> circle_area,
          rect_area          |-> rect_area,
          smaller_shape_area |-> min(circle_area, rect_area),
          bigger_shape_area  |-> max(circle_area, rect_area),
          points_in_circle   |-> points_in_circle,
          intersection_area  |-> MulDiv(rect_area, points_in_circle,
                                        num_simulations) ]

\* get_size_ratio dividing by the smaller area whatever it is.
get_size_ratio_unguarded(ia) ==
    IF ia.status = "intersecting"
    THEN <<ia.intersection_area, ia.circle_area>>
    ELSE IF ia.status = "not-intersecting"
    THEN <<0, 1>>
    ELSE <<ia.bigger_shape_area, ia.smaller_shape_area>>

\* _IntersectionAnalysis.get_size_ratio, as the fraction <<n, d>> of the
\* division it makes (<<0, 1>> where it returns 0): d = 0 is Python's
\* ZeroDivisionError.
get_size_ratio(ia) ==
    IF ia.status = "intersecting"
    THEN <<ia.intersection_area, ia.circle_area>>
    ELSE IF ia.status = "not-intersecting" \/ ia.smaller_shape_area = 0
    THEN <<0, 1>>
    ELSE <<ia.bigger_shape_area, ia.smaller_shape_area>>

\* n / d in hundredths, rounded up: 0 for n = 0 only.
Hundredths(n, d) == (n * 100 + d - 1) \div d

\* get_size_factor returning the ratio whatever its size.
get_size_factor_uninverted(ia) ==
    LET ratio == get_size_ratio(ia)
    IN  IF ratio[1] = 0 THEN 0 ELSE Hundredths(ratio[1], ratio[2])

\* _IntersectionAnalysis.get_size_factor, in hundredths.
get_size_factor(ia) ==
    LET ratio == get_size_ratio(ia)
    IN  IF ratio[1] = 0 THEN 0
        ELSE IF ratio[1] <= ratio[2] THEN Hundredths(ratio[1], ratio[2])
        ELSE Hundredths(ratio[2], ratio[1])

\* 100 * 2 ^ (-q / 4) rounded down, for a whole q >= 0.
RECURSIVE HalvedBy(_, _)
HalvedBy(x, k) == IF k = 0 \/ x = 0 THEN x ELSE HalvedBy(x \div 2, k - 1)

Pow2Hundredths(q) == HalvedBy(<<100, 84, 70, 59>>[(q % 4) + 1], q \div 4)

\* _IntersectionAnalysis.get_center_factor, in hundredths.  With
\* sigma ^ 2 = (radius / 2) ^ 2 / (-2 * log(0.5)) the Gaussian
\* exp(-distance ^ 2 / (2 * sigma ^ 2)) is 2 ^ (-(2 * distance / radius) ^ 2),
\* taken here in steps of a quarter of the exponent.
get_center_factor(ia) ==
    IF ia.distance_to_center = 0 THEN 100
    ELSE IF ia.circle_radius = 0 THEN 0
    ELSE IF ia.distance_to_center >= 4 * ia.circle_radius THEN 100
    ELSE LET d == 2 * ia.distance_to_center
             q == (4 * ((d * d) \div ia.circle_radius)) \div ia.circle_radius
         IN  100 + Pow2Hundredths(q)

(***************************************************************************)
(* _tripper/location.py: GeoTraits, a candidate place.  A text is the      *)
(* sequence of its code points; None is the one value that is no text.     *)
(* A type tag is a string, "None" standing for the absent primary type.    *)
(***************************************************************************)

None == <<-1>>

\* Python's truth value of a text or None: false for None and for "".
Truthy(text) == text # None /\ text # <<>>

\* GeoTraits.INTERESTING_TYPES
INTERESTING_TYPES == <<"tourist_attraction", "point_of_interest", "locality">>

\* INTERESTING_TYPES.index(_type), counted from 0.
index(_type) == (CHOOSE i \in 1..Len(INTERESTING_TYPES) :
                     INTERESTING_TYPES[i] = _type) - 1

\* GeoTraits.__init__ after the names of the fields are chosen, for a record
\* of the service 'geocode' or 'gplaces' that has them all, with the number
\* of random points the intersection analysis drew inside the circle.  A
\* 'geocode' record has the fields formatted_address, types,
\* address_components (short_name, long_name, types) and viewport
\* (northeast, southwest); a 'gplaces' record has formattedAddress, types,
\* primaryType, displayName, addressComponents (shortText, longText, types)
\* and viewport (high, low).  An absent short name or primary type is None.
traits_of(center, radius, geo_service, geo_data, drawn) ==
    LET viewport == IF geo_service = "geocode"
                    THEN <<geo_data.viewport.northeast, geo_data.viewport.southwest>>
                    ELSE <<geo_data.viewport.high, geo_data.viewport.low>>
        components == IF geo_service = "geocode"
                      THEN [i \in 1..Len(geo_data.address_components) |->
                               LET c == geo_data.address_components[i]
                               IN  [ name  |-> IF c.short_name # None
                                               THEN c.short_name ELSE c.long_name,
                                     types |-> c.types ]]
                      ELSE [i \in 1..Len(geo_data.addressComponents) |->
                               LET c == geo_data.addressComponents[i]
                               IN  [ name  |-> IF c.shortText # None
                                               THEN c.shortText ELSE c.longText,
                                     types |-> c.types ]]
    IN  [ service       |-> geo_service,
          center        |-> center,
          radius        |-> radius,
          address       |-> IF geo_service = "geocode"
                            THEN geo_data.formatted_address
                            ELSE geo_data.formattedAddress,
          types         |-> geo_data.types,
          primary_type  |-> IF geo_service = "gplaces"
                            THEN geo_data.primaryType ELSE "None",
          display_name  |-> IF geo_service = "gplaces"
                            THEN geo_data.displayName
                            ELSE geo_data.formatted_address,
          viewport      |-> viewport,
          address_chain |-> components,
          intersection_analysis |->
              IntersectionAnalysis(center, radius, viewport[1], viewport[2], drawn) ]

\* What a constructor raises, in place of the object.
NotImplementedError == [raised |-> "NotImplementedError"]
KeyError == [raised |-> "KeyError"]

\* The fields of a record GeoTraits.__init__ subscripts.
fields_read(geo_service) ==
    IF geo_service = "geocode"
    THEN {"viewport", "formatted_address", "types", "address_components"}
    ELSE {"viewport", "formattedAddress", "types", "displayName",
          "addressComponents"}

\* GeoTraits.__init__ reading the record before it looks at the service.
GeoTraits_fields_first(center, radius, geo_service, geo_data, drawn) ==
    IF ~({"viewport", "types"} \subseteq DOMAIN geo_data)
    THEN KeyError
    ELSE IF geo_service \notin {"geocode", "gplaces"}
    THEN NotImplementedError
    ELSE IF ~(fields_read(geo_service) \subseteq DOMAIN geo_data)
    THEN KeyError
    ELSE traits_of(center, radius, geo_service, geo_data, drawn)

\* GeoTraits.__init__: the service decides the names of the fields, or
\* raises; then the fields are read.
GeoTraits(center, radius, geo_service, geo_data, drawn) ==
    IF geo_service \notin {"geocode", "gplaces"}
    THEN NotImplementedError
    ELSE IF ~(fields_read(geo_service) \subseteq DOMAIN geo_data)
    THEN KeyError
    ELSE traits_of(center, radius, geo_service, geo_data, drawn)

\* x_score without the priority of the interesting types.
x_score_flat(base_score, _type) ==
    IF In(_type, INTERESTING_TYPES) THEN base_score * 10 ELSE 0

\* get_place_score.x_score
x_score(base_score, _type) ==
    IF In(_type, INTERESTING_TYPES)
    THEN base_score * 10 * (Len(INTERESTING_TYPES) - index(_type))
    ELSE 0

\* get_place_score that leaves the address chain out of the sum.
get_place_score_without_chain(t, use_size_factor, use_center_factor) ==
    LET score ==
            x_score(1000, t.primary_type)
            + SumSeq([i \in 1..Len(t.types) |-> x_score(100, t.types[i])])
    IN  score
        * (IF use_size_factor
           THEN get_size_factor(t.intersection_analysis) ELSE 100)
        * (IF use_center_factor
           THEN get_center_factor(t.intersection_analysis) ELSE 100)

\* GeoTraits.get_place_score, in 1/10000 of a point: the score times the
\* size factor in hundredths, or 100, times the center factor in
\* hundredths, or 100.
get_place_score(t, use_size_factor, use_center_factor) ==
    LET score ==
            x_score(1000, t.primary_type)
            + SumSeq([i \in 1..Len(t.types) |-> x_score(100, t.types[i])])
            + SumSeq([i \in 1..Len(t.address_chain) |->
                         SumSeq([j \in 1..Len(t.address_chain[i].types) |->
                                    x_score(10, t.address_chain[i].types[j])])])
    IN  score
        * (IF use_size_factor
           THEN get_size_factor(t.intersection_analysis) ELSE 100)
        * (IF use_center_factor
           THEN get_center_factor(t.intersection_analysis) ELSE 100)

\* get_place_name._p: the name of the first component of the address chain
\* tagged _tp, None without one.
p_(t, _tp) ==
    LET tagged == { i \in 1..Len(t.address_chain) : In(_tp, t.address_chain[i].types) }
    IN  IF tagged = {} THEN None
        ELSE t.address_chain[CHOOSE i \in tagged : \A j \in tagged : i <= j].name

\* next(gen, default) over the interesting types from position i on: the
\* first _p(it) whose type passes the filter and whose name is true.
RECURSIVE next_p(_, _, _, _)
next_p(t, own_types_only, i, default) ==
    IF i > Len(INTERESTING_TYPES) THEN default
    ELSE LET it == INTERESTING_TYPES[i]
         IN  IF (own_types_only => In(it, t.types)) /\ Truthy(p_(t, it))
             THEN p_(t, it)
             ELSE next_p(t, own_types_only, i + 1, default)

\* get_place_name that takes the display name whatever the primary type.
get_place_name_any_primary(t) ==
    IF Truthy(t.display_name)
    THEN t.display_name
    ELSE next_p(t, TRUE, 1, next_p(t, FALSE, 1, None))

\* GeoTraits.get_place_name
get_place_name(t) ==
    IF Truthy(t.display_name) /\ In(t.primary_type, INTERESTING_TYPES)
    THEN t.display_name
    ELSE next_p(t, TRUE, 1, next_p(t, FALSE, 1, None))

(***************************************************************************)
(* PictureLocation: the candidates of the two services for one cluster.    *)
(* NoTraits is the None a selection returns when it selects nothing.       *)
(***************************************************************************)

NoTraits == [service |-> "None"]

\* next(iter(...), None) of a list of candidates.
first_or_none(_traits) == IF _traits = <<>> THEN NoTraits ELSE Head(_traits)

\* filter(flt, _traits): the candidates passing flt[t], in their order.
RECURSIVE filter(_, _)
filter(flt, _traits) ==
    IF _traits = <<>> THEN <<>>
    ELSE IF flt[Head(_traits)]
         THEN <<Head(_traits)>> \o filter(flt, Tail(_traits))
         ELSE filter(flt, Tail(_traits))

\* first_by_service reading the list of the other service.
first_by_service_swapped(location, service) ==
    LET _traits == IF service = "geocode" THEN location.gplaces_traits
                   ELSE location.geocode_traits
    IN  first_or_none(
            filter([t \in {_traits[i] : i \in 1..Len(_traits)} |->
                       get_place_name(t) # None],
                   _traits))

\* PictureLocation.first_by_service for service 'gplaces' or 'geocode'.
first_by_service(location, service) ==
    LET _traits == IF service = "geocode" THEN location.geocode_traits
                   ELSE location.gplaces_traits
    IN  first_or_none(
            filter([t \in {_traits[i] : i \in 1..Len(_traits)} |->
                       get_place_name(t) # None],
                   _traits))

\* sorted(...) putting the latest of the candidates of equal key first.
RECURSIVE sorted_reverse_unstable(_, _)
sorted_reverse_unstable(key, _traits) ==
    IF _traits = <<>> THEN <<>>
    ELSE LET rest   == sorted_reverse_unstable(key, Tail(_traits))
             before == { i \in 1..Len(rest) : key[rest[i]] >= key[Head(_traits)] }
             n      == Cardinality(before)
         IN  SubSeq(rest, 1, n) \o <<Head(_traits)>> \o SubSeq(rest, n + 1, Len(rest))

\* sorted(_traits, key=key, reverse=True): a stable sort, the candidates of
\* equal key staying in their order.  By insertion from the right.
RECURSIVE sorted_reverse(_, _)
sorted_reverse(key, _traits) ==
    IF _traits = <<>> THEN <<>>
    ELSE LET rest   == sorted_reverse(key, Tail(_traits))
             before == { i \in 1..Len(rest) : key[rest[i]] > key[Head(_traits)] }
             n      == Cardinality(before)
         IN  SubSeq(rest, 1, n) \o <<Head(_traits)>> \o SubSeq(rest, n + 1, Len(rest))

\* PictureLocation.first_by_score; services is None ({"None"}) or a set of
\* service names.
first_by_score(location, use_size_factor, use_center_factor, services) ==
    LET _traits ==
            (IF services = {"None"} \/ "geocode" \in services
             THEN location.geocode_traits ELSE <<>>)
            \o (IF services = {"None"} \/ "gplaces" \in services
                THEN location.gplaces_traits ELSE <<>>)
        all  == { _traits[i] : i \in 1..Len(_traits) }
        _srt == [t \in all |-> get_place_score(t, use_size_factor, use_center_factor)]
        _flt == [t \in all |-> _srt[t] > 0]
    IN  first_or_none(sorted_reverse(_srt, filter(_flt, _traits)))

\* unidecode of one code point: ASCII stays, U+00DC (U with diaeresis) is
\* transliterated to "U".
unidecode_char(c) == IF c = 220 THEN <<85>> ELSE <<c>>

\* unidecode.unidecode of a text.
RECURSIVE unidecode(_)
unidecode(text) ==
    IF text = <<>> THEN <<>>
    ELSE unidecode_char(Head(text)) \o unidecode(Tail(text))

\* list(dict.fromkeys(names)): the first occurrences, in their order.
RECURSIVE fromkeys(_)
fromkeys(names) ==
    IF names = <<>> THEN <<>>
    ELSE LET init == fromkeys(SubSeq(names, 1, Len(names) - 1))
             last == names[Len(names)]
         IN  IF In(last, init) THEN init ELSE Append(init, last)

\* ", ".join(names)
RECURSIVE join(_)
join(names) ==
    IF names = <<>> THEN <<>>
    ELSE IF Len(names) = 1 THEN names[1]
    ELSE names[1] \o <<44, 32>> \o join(Tail(names))

\* The exception unidecode(None) ends place_full_strategy with.
Raised == <<-2>>

\* move.place_full_strategy with _location bound to location.
place_full_strategy(location) ==
    LET traits == << first_by_service(location, "gplaces"),
                     first_by_service(location, "geocode"),
                     first_by_score(location, FALSE, TRUE, {"None"}) >>
        chosen == filter([t \in {traits[i] : i \in 1..3} |-> t # NoTraits], traits)
    IN  IF \E i \in 1..Len(chosen) : get_place_name(chosen[i]) = None
        THEN Raised
        ELSE join(fromkeys([i \in 1..Len(chosen) |->
                               unidecode(get_place_name(chosen[i]))]))

VARIABLES
    pc,            \* position of __main__: "collect", "move", "done", "failed"
    all_pictures,  \* list[PictureInfo], in scan order
    geo_clusters,  \* list[PictureCluster], in creation order
    locations,     \* list[PictureLocation], in creation order
    _location,     \* move()'s local _location: a position in locations, 0 unbound
    summary_rows,  \* list[SummaryRow]
    cache,         \* the files of the cache folder
    query          \* the last call of a selection function and its result

vars == <<pc, all_pictures, geo_clusters, locations, _location, summary_rows,
          cache, query>>

\* PictureInfo(file): the file (its position in the sorted scan), the GPS
\* tags exiftool found, the cluster the picture was put in (0 is None) and
\* the place strategy move() assigns to it.
PictureInfo(file, has_latlon, latlon) ==
    [ file |-> file, has_latlon |-> has_latlon, latlon |-> latlon,
      cluster |-> 0, get_place_name |-> "None" ]

\* The pictures a scan can meet as its next file.
ScannedPictures(file) ==
    { PictureInfo(file, TRUE, ll) : ll \in PictureSites }
        \cup { PictureInfo(file, FALSE, <<0, 0>>) }

\* The member of cluster.pictures a picture is: PictureInfo hashes and
\* compares by file, its tags never change.
Member(picture) == [file |-> picture.file, latlon |-> picture.latlon]

\* has_latlon that takes every picture for geotagged.
has_latlon_always(picture) == TRUE

\* PictureInfo.has_latlon: both GPS tags are among the picture's tags.
has_latlon(picture) == picture.has_latlon

\* PictureInfo.get_distance for a picture that has coordinates.
get_distance(picture, latlon1) == haversine(picture.latlon, latlon1)

\* is_in_range with <= for <: an item at exactly the range is taken in.
is_in_range_inclusive(cluster, picture) ==
    get_distance(picture, cluster.center) <= max(search_radius, cluster.radius)

\* is_in_range against the search radius alone.
is_in_range_search_radius_only(cluster, picture) ==
    get_distance(picture, cluster.center) < search_radius

\* is_in_range that accepts every picture, wherever it was taken.
is_in_range_anywhere(cluster, picture) == TRUE

\* PictureCluster.is_in_range.
is_in_range(cluster, picture) ==
    get_distance(picture, cluster.center) < max(search_radius, cluster.radius)

\* new_center with the latitudes summed for both axes.
new_center_lat_twice(pictures) ==
    LET n == Cardinality(pictures)
    IN  << SumOver(pictures, [p \in pictures |-> p.latlon[1]]) \div n,
           SumOver(pictures, [p \in pictures |-> p.latlon[1]]) \div n >>

\* PictureCluster.add_picture, "compute new center": the sum of the
\* members' coordinates over their number, each axis on its own.
new_center(pictures) ==
    LET n == Cardinality(pictures)
    IN  << SumOver(pictures, [p \in pictures |-> p.latlon[1]]) \div n,
           SumOver(pictures, [p \in pictures |-> p.latlon[2]]) \div n >>

\* The statistical circle with one standard deviation for two.
statistical_radius_one_sigma(pictures, center) ==
    LET n         == Cardinality(pictures)
        distance  == [p \in pictures |-> haversine(center, p.latlon)]
        avg_dist  == SumOver(pictures, distance) \div n
        variance  ==
            SumOver(pictures,
                    [p \in pictures |->
                        (distance[p] - avg_dist) * (distance[p] - avg_dist)])
                \div n
        std_dev   == sqrt(variance)
    IN  avg_dist + std_dev

\* The statistical circle of a set of members around a center: the mean
\* of the members' distances to it plus two standard deviations.
statistical_radius(pictures, center) ==
    LET n         == Cardinality(pictures)
        distance  == [p \in pictures |-> haversine(center, p.latlon)]
        avg_dist  == SumOver(pictures, distance) \div n
        variance  ==
            SumOver(pictures,
                    [p \in pictures |->
                        (distance[p] - avg_dist) * (distance[p] - avg_dist)])
                \div n
        std_dev   == sqrt(variance)
    IN  avg_dist + (2 * std_dev)

\* new_radius without the case of the single member.
new_radius_always_statistical(pictures, center) ==
    statistical_radius(pictures, center)

\* PictureCluster.add_picture, "compute new statistical circle".
new_radius(pictures, center) ==
    IF Cardinality(pictures) = 1
    THEN search_radius \div 10
    ELSE statistical_radius(pictures, center)

\* add_picture that assigns the new picture as the whole member set.
add_picture_forgetting(cluster, picture) ==
    LET pictures == {Member(picture)}
        center   == new_center(pictures)
    IN  [ name     |-> cluster.name,
          center   |-> center,
          radius   |-> new_radius(pictures, center),
          pictures |-> pictures ]

\* add_picture that keeps the members within the range of the new center
\* only.
add_picture_in_range_only(cluster, picture) ==
    LET all      == cluster.pictures \cup {Member(picture)}
        reach    == max(search_radius, new_radius(all, new_center(all)))
        pictures == { m \in all : haversine(m.latlon, new_center(all)) < reach }
        center   == new_center(pictures)
    IN  [ name     |-> cluster.name,
          center   |-> center,
          radius   |-> new_radius(pictures, center),
          pictures |-> pictures ]

\* PictureCluster.add_picture: the cluster after the call.
add_picture(cluster, picture) ==
    LET pictures == cluster.pictures \cup {Member(picture)}
        center   == new_center(pictures)
    IN  [ name     |-> cluster.name,
          center   |-> center,
          radius   |-> new_radius(pictures, center),
          pictures |-> pictures ]

\* PictureCluster(name, first_picture).
PictureCluster(name, first_picture) ==
    add_picture([name |-> name, center |-> <<0, 0>>, radius |-> 0,
                 pictures |-> {}],
                first_picture)

\* The loop taking the nearest cluster in range (best fit) for the first.
cluster_found_nearest(clusters, picture, i) ==
    LET hits == { k \in i..Len(clusters) : is_in_range(clusters[k], picture) }
    IN  IF hits = {} THEN 0
        ELSE CHOOSE k \in hits :
                 \A j \in hits :
                     \/ get_distance(picture, clusters[k].center)
                            < get_distance(picture, clusters[j].center)
                     \/ /\ get_distance(picture, clusters[k].center)
                               = get_distance(picture, clusters[j].center)
                        /\ k <= j

\* The loop of add_picture_file over geo_clusters from position i on: the
\* position of the cluster the loop breaks at, 0 when it runs to its end.
RECURSIVE cluster_found(_, _, _)
cluster_found(clusters, picture, i) ==
    IF i > Len(clusters) THEN 0
    ELSE IF is_in_range(clusters[i], picture) THEN i
    ELSE cluster_found(clusters, picture, i + 1)

\* collect.add_picture_file for the next file of the scan.
add_picture_file(picture) ==
    /\ pc = "collect"
    /\ picture.file = Len(all_pictures) + 1
    /\ IF has_latlon(picture)
       THEN LET found == cluster_found(geo_clusters, picture, 1)
            IN  IF found # 0
                THEN /\ geo_clusters' =
                            [geo_clusters EXCEPT
                                ![found] = add_picture(geo_clusters[found], picture)]
                     /\ all_pictures' =
                            Append(all_pictures, [picture EXCEPT !.cluster = found])
                ELSE /\ geo_clusters' =
                            Append(geo_clusters,
                                   PictureCluster(Len(geo_clusters) + 1, picture))
                     /\ all_pictures' =
                            Append(all_pictures,
                                   [picture EXCEPT !.cluster = Len(geo_clusters) + 1])
       ELSE /\ all_pictures' = Append(all_pictures, picture)
            /\ UNCHANGED geo_clusters
    /\ UNCHANGED <<pc, locations, _location, summary_rows, cache, query>>

\* collect(): one more file of the walk, of a run of MaxRunPictures files
\* at most.
Collect ==
    /\ Len(all_pictures) < MaxRunPictures
    /\ \E picture \in ScannedPictures(Len(all_pictures) + 1) :
           add_picture_file(picture)

\* collect(): one more file of the walk, of a scan of MaxPictures files at
\* most.
Scan ==
    /\ Len(all_pictures) < MaxPictures
    /\ \E picture \in ScannedPictures(Len(all_pictures) + 1) :
           add_picture_file(picture)

\* collect() returns and move() starts.
EndCollect ==
    /\ pc = "collect"
    /\ pc' = "move"
    /\ UNCHANGED <<all_pictures, geo_clusters, locations, _location,
                   summary_rows, cache, query>>

(***************************************************************************)
(* The providers and the cache (_geo_decode).                              *)
(***************************************************************************)

\* A component of a record's address chain.
Component(short, long, types) ==
    [short_name |-> short, long_name |-> long, types |-> types]

Place(short, long, types) ==
    [shortText |-> short, longText |-> long, types |-> types]

\* Records gmaps.reverse_geocode can answer with.
GeocodeRecords ==
    { \* a locality: named by its address chain, 1100 points
      [ formatted_address  |-> <<65>>,
        types              |-> <<"locality", "political">>,
        address_components |-> <<Component(<<85>>, <<85, 85>>, <<"locality", "political">>)>>,
        viewport |-> [northeast |-> <<600, 600>>, southwest |-> <<-600, -600>>] ],
      \* a point of interest on a route: 2000 points and no place name
      [ formatted_address  |-> <<66>>,
        types              |-> <<"point_of_interest", "establishment">>,
        address_components |-> <<Component(None, <<82>>, <<"route">>)>>,
        viewport |-> [northeast |-> <<600, 600>>, southwest |-> <<-600, -600>>] ],
      \* a route: a component with an empty name, then a locality
      [ formatted_address  |-> <<67>>,
        types              |-> <<"route">>,
        address_components |-> <<Component(<<>>, <<82>>, <<"point_of_interest">>),
                                 Component(<<220>>, <<220>>, <<"locality">>)>>,
        viewport |-> [northeast |-> <<600, 3000>>, southwest |-> <<-600, 600>>] ],
      \* another locality of 1100 points
      [ formatted_address  |-> <<68>>,
        types              |-> <<"locality">>,
        address_components |-> <<Component(<<86>>, <<86>>, <<"locality">>),
                                 Component(<<82>>, <<82>>, <<"route">>)>>,
        viewport |-> [northeast |-> <<600, 600>>, southwest |-> <<-600, -600>>] ] }

\* Records the Places 'Search Nearby' call can answer with.
GplacesRecords ==
    { \* a tourist attraction, inside the circle of a new cluster
      [ formattedAddress  |-> <<65>>,
        primaryType       |-> "tourist_attraction",
        displayName       |-> <<220>>,
        types             |-> <<"tourist_attraction", "point_of_interest">>,
        addressComponents |-> <<Place(<<85>>, <<85>>, <<"locality">>)>>,
        viewport |-> [high |-> <<120, 120>>, low |-> <<-120, -120>>] ],
      \* a locality with an empty display name
      [ formattedAddress  |-> <<66>>,
        primaryType       |-> "locality",
        displayName       |-> <<>>,
        types             |-> <<"locality">>,
        addressComponents |-> <<Place(<<86>>, <<86>>, <<"locality">>)>>,
        viewport |-> [high |-> <<600, 600>>, low |-> <<-600, -600>>] ],
      \* a place without primary type, 1100 points
      [ formattedAddress  |-> <<67>>,
        primaryType       |-> "None",
        displayName       |-> <<80>>,
        types             |-> <<"locality">>,
        addressComponents |-> <<Place(<<85>>, <<85>>, <<"locality">>)>>,
        viewport |-> [high |-> <<600, 600>>, low |-> <<-600, -600>>] ],
      \* a park: no interesting type anywhere
      [ formattedAddress  |-> <<68>>,
        primaryType       |-> "park",
        displayName       |-> <<80>>,
        types             |-> <<"park">>,
        addressComponents |-> <<>>,
        viewport |-> [high |-> <<600, 3000>>, low |-> <<-600, 600>>] ] }

RawRecords(service) ==
    IF service = "geocode" THEN GeocodeRecords ELSE GplacesRecords

\* The lists of at most n records of a service.
Responses(service, n) ==
    UNION { [1..k -> RawRecords(service)] : k \in 0..n }

\* The candidate lists _geo_decode can build from the records data for a
\* cluster: one GeoTraits per record, in order, each with one of the
\* numbers its random points can give.
RECURSIVE TraitLists(_, _, _)
TraitLists(cluster, service, data) ==
    IF data = <<>> THEN { <<>> }
    ELSE LET obj == Head(data)
             vp  == IF service = "geocode"
                    THEN <<obj.viewport.northeast, obj.viewport.southwest>>
                    ELSE <<obj.viewport.high, obj.viewport.low>>
         IN  { <<GeoTraits(cluster.center, cluster.radius, service, obj, drawn)>>
                   \o rest :
                   drawn \in points_in_circle_drawn(cluster.center, cluster.radius,
                                                    vp[1], vp[2]),
                   rest \in TraitLists(cluster, service, Tail(data)) }

\* A record without the viewport.
MalformedRecord(service) ==
    IF service = "geocode"
    THEN [ formatted_address  |-> <<69>>,
           types              |-> <<"locality">>,
           address_components |-> <<>> ]
    ELSE [ formattedAddress   |-> <<69>>,
           primaryType        |-> "locality",
           displayName        |-> <<87>>,
           types              |-> <<"locality">>,
           addressComponents  |-> <<>> ]

\* The answers of a provider in a run: no record, two records, and for
\* 'gplaces' a record without viewport before a record that has it.
ProviderResponses(service) ==
    { data \in Responses(service, 2) :
          \/ data = <<>>
          \/ /\ Len(data) = 2
             /\ service = "geocode" =>
                    /\ data[1].formatted_address = <<66>>
                    /\ data[2].formatted_address = <<65>>
             /\ service = "gplaces" =>
                    /\ data[1].formattedAddress = <<68>>
                    /\ data[2].formattedAddress = <<65>> }
        \cup (IF service = "gplaces"
              THEN { << MalformedRecord(service),
                        CHOOSE r \in GplacesRecords : r.formattedAddress = <<65>> >> }
              ELSE {})

\* find_cache_file that finds no file.
cache_files_never(files, cluster, service) == {}

\* find_cache_file: the cache files of the service whose center is within
\* a quarter of the search radius of the cluster's.
cache_files(files, cluster, service) ==
    { f \in files : /\ f.service = service
                    /\ haversine(cluster.center, f.center) < search_radius \div 4 }

\* The return statement of _geo_decode: one GeoTraits per record of data, in
\* order; a record GeoTraits raises on ends the comprehension and the call.
traits_returned(files, cluster, service, data, called) ==
    IF \E i \in 1..Len(data) :
           GeoTraits(cluster.center, cluster.radius, service, data[i], 0) = KeyError
    THEN { [ ok |-> FALSE, files |-> files, traits |-> <<>>,
             called |-> called, loaded |-> TRUE, data |-> data ] }
    ELSE { [ ok |-> TRUE, files |-> files, traits |-> ts,
             called |-> called, loaded |-> TRUE, data |-> data ] :
               ts \in TraitLists(cluster, service, data) }

\* _geo_decode(cluster, service): its outcomes, each the files of the cache
\* folder after the call, whether the provider was called, the records
\* loaded if any, and either the candidates returned or the failure of the
\* call.  A file opened for writing and never written is empty, and
\* json.load fails on an empty file.
geo_decode(files, cluster, service) ==
    LET found == cache_files(files, cluster, service)
        file(written, data) ==
            [ center |-> cluster.center, service |-> service,
              written |-> written, data |-> data ]
    IN  IF found # {}
        THEN UNION {
                 IF f.written
                 THEN traits_returned(files, cluster, service, f.data, FALSE)
                 ELSE { [ ok |-> FALSE, files |-> files, traits |-> <<>>,
                          called |-> FALSE, loaded |-> FALSE, data |-> <<>> ] } :
                 f \in found }
        ELSE { [ ok |-> FALSE, files |-> files \cup { file(FALSE, <<>>) },
                 traits |-> <<>>,
                 called |-> TRUE, loaded |-> FALSE, data |-> <<>> ] }
             \cup UNION {
                 traits_returned(files \cup { file(TRUE, data) }, cluster,
                                 service, data, TRUE) :
                 data \in ProviderResponses(service) }

\* PictureLocation(cluster) for cluster number c: 'geocode', then 'gplaces'.
PictureLocation(files, c) ==
    UNION {
        IF ~geocode.ok
        THEN { [ok |-> FALSE, files |-> geocode.files] }
        ELSE { IF ~gplaces.ok
               THEN [ok |-> FALSE, files |-> gplaces.files]
               ELSE [ ok |-> TRUE, files |-> gplaces.files,
                      location |-> [ cluster        |-> c,
                                     geocode_traits |-> geocode.traits,
                                     gplaces_traits |-> gplaces.traits ] ] :
               gplaces \in geo_decode(geocode.files, geo_clusters[c], "gplaces") } :
        geocode \in geo_decode(files, geo_clusters[c], "geocode") }

(***************************************************************************)
(* move(): one turn of its loop over all_pictures.                         *)
(***************************************************************************)

\* The rest of a turn of the loop once the picture's strategy is set:
\* _get_new_name and the summary row call info.get_place_name().
name_and_row(k, strategy, locs, loc) ==
    LET place == IF strategy = "place_none" THEN None
                 ELSE place_full_strategy(locs[loc])
    IN  /\ all_pictures' = [all_pictures EXCEPT ![k].get_place_name = strategy]
        /\ IF place = Raised
           THEN pc' = "failed" /\ UNCHANGED summary_rows
           ELSE /\ summary_rows' =
                       Append(summary_rows,
                              [ file |-> k, cluster |-> all_pictures[k].cluster,
                                place |-> place ])
                /\ UNCHANGED pc

\* The search of locations that stops at the first location, whatever its
\* cluster.
location_of_any(locs, cluster) == IF locs = <<>> THEN 0 ELSE 1

\* The search of locations that finds nothing.
location_of_none(locs, cluster) == 0

\* next((_l for _l in locations if _l.cluster == info.cluster), None): the
\* position of the first location of the cluster, 0 for None.
location_of(locs, cluster) ==
    LET known == { i \in 1..Len(locs) : locs[i].cluster = cluster }
    IN  IF known = {} THEN 0
        ELSE CHOOSE i \in known : \A j \in known : i <= j

\* A turn of the loop of move(): the strategy of the next picture, the
\* location of its cluster loaded if it is not there, then its name and row.
move_picture ==
    /\ pc = "move"
    /\ Len(summary_rows) < Len(all_pictures)
    /\ LET k    == Len(summary_rows) + 1
           info == all_pictures[k]
       IN  IF info.cluster = 0
           THEN /\ name_and_row(k, "place_none", locations, _location)
                /\ UNCHANGED <<locations, _location, cache>>
           ELSE LET known == location_of(locations, info.cluster)
                IN  IF known # 0
                    THEN /\ _location' = known
                         /\ name_and_row(k, "place_full_strategy", locations, _location')
                         /\ UNCHANGED <<locations, cache>>
                    ELSE \E out \in PictureLocation(cache, info.cluster) :
                             /\ cache' = out.files
                             /\ IF out.ok
                                THEN /\ locations' = Append(locations, out.location)
                                     /\ _location' = Len(locations) + 1
                                     /\ name_and_row(k, "place_full_strategy",
                                                     locations', _location')
                                ELSE /\ pc' = "failed"
                                     /\ UNCHANGED <<all_pictures, locations,
                                                    _location, summary_rows>>
    /\ UNCHANGED <<geo_clusters, query>>

\* move() returns.
EndMove ==
    /\ pc = "move"
    /\ Len(summary_rows) = Len(all_pictures)
    /\ pc' = "done"
    /\ UNCHANGED <<all_pictures, geo_clusters, locations, _location,
                   summary_rows, cache, query>>

NoQuery == [call |-> "None"]

\* The files a cache folder can hold when a run starts: none, or one left
\* by an earlier run, written or opened and never written.
InitialCaches ==
    { {},
      { [ center |-> <<0, 0>>, service |-> "geocode", written |-> TRUE,
          data |-> <<CHOOSE r \in GeocodeRecords : r.formatted_address = <<68>>>> ] },
      { [ center |-> <<0, 600>>, service |-> "gplaces", written |-> FALSE,
          data |-> <<>> ] } }

Init ==
    /\ pc = "collect"
    /\ all_pictures = <<>>
    /\ geo_clusters = <<>>
    /\ locations = <<>>
    /\ _location = 0
    /\ summary_rows = <<>>
    /\ cache \in InitialCaches
    /\ query = NoQuery

Next == Collect \/ EndCollect \/ move_picture \/ EndMove

\* A run of the program: collect(), then move().
Spec == Init /\ [][Next]_vars

\* collect() alone, on longer scans; it does not look at the cache folder.
InitCollect == Init /\ cache = {}

SpecCollect == InitCollect /\ [][Scan]_vars

\* The sites of the pictures taken along one road, eastwards from (0, 0).
RoadSites == { <<0, 0>>, <<0, 2400>>, <<0, 3600>>, <<0, 4800>> }

\* collect(): one more file of the walk, a geotagged picture taken on the
\* road, of a scan of MaxRoadPictures files at most.
ScanRoad ==
    /\ Len(all_pictures) < MaxRoadPictures
    /\ \E latlon \in RoadSites :
           add_picture_file(PictureInfo(Len(all_pictures) + 1, TRUE, latlon))

\* collect() alone, on the pictures of one road.
SpecRoad == InitCollect /\ [][ScanRoad]_vars

(***************************************************************************)
(* The selection functions of a PictureLocation, called on the location    *)
(* of one cluster.                                                         *)
(***************************************************************************)

\* The cluster of a picture at (0, 0) and of the pictures at the sites
\* given, each of them in its range.
RECURSIVE cluster_of(_, _)
cluster_of(cluster, sites) ==
    IF sites = <<>> THEN cluster
    ELSE cluster_of(
             add_picture(cluster,
                         PictureInfo(Cardinality(cluster.pictures) + 1, TRUE,
                                     Head(sites))),
             Tail(sites))

\* After collect() and PictureLocation(cluster) for its one cluster: a new
\* cluster, one of two pictures at one site (radius 0), or one of two
\* sites; the two services have answered MaxCandidates records at most.
InitPlace ==
    \E sites \in { <<>>, << <<0, 0>> >>, << <<0, 2400>> >> } :
    \E g \in Responses("geocode", MaxCandidates) :
    \E p \in Responses("gplaces", MaxCandidates) :
        LET first   == PictureInfo(1, TRUE, <<0, 0>>)
            cluster == cluster_of(PictureCluster(1, first), sites)
        IN  /\ Len(g) + Len(p) <= MaxCandidates
            /\ pc = "move"
            /\ geo_clusters = <<cluster>>
            /\ all_pictures =
                   [k \in 1..(1 + Len(sites)) |->
                       [ PictureInfo(k, TRUE, IF k = 1 THEN <<0, 0>> ELSE sites[k - 1])
                           EXCEPT !.cluster = 1 ]]
            /\ \E gt \in TraitLists(cluster, "geocode", g) :
               \E pt \in TraitLists(cluster, "gplaces", p) :
                   locations = << [ cluster |-> 1, geocode_traits |-> gt,
                                    gplaces_traits |-> pt ] >>
            /\ _location = 1
            /\ summary_rows = <<>>
            /\ cache = { [ center |-> cluster.center, service |-> "geocode",
                           written |-> TRUE, data |-> g ],
                         [ center |-> cluster.center, service |-> "gplaces",
                           written |-> TRUE, data |-> p ] }
            /\ query = NoQuery

\* The functions change nothing: each call is recorded from the state the
\* constructor left.
Unasked ==
    UNCHANGED <<pc, all_pictures, geo_clusters, locations, _location,
              summary_rows, cache>>

\* The candidates of a location, of both services.
candidates(location) ==
    { location.geocode_traits[i] : i \in 1..Len(location.geocode_traits) }
        \cup { location.gplaces_traits[i] : i \in 1..Len(location.gplaces_traits) }

call_get_place_name ==
    /\ query = NoQuery
    /\ \E t \in candidates(locations[1]) :
           query' = [ call |-> "get_place_name", traits |-> t,
                      result |-> get_place_name(t) ]
    /\ Unasked

call_get_place_score ==
    /\ query = NoQuery
    /\ \E t \in candidates(locations[1]) :
       \E use_size_factor \in BOOLEAN, use_center_factor \in BOOLEAN :
           query' = [ call |-> "get_place_score", traits |-> t,
                      use_size_factor |-> use_size_factor,
                      use_center_factor |-> use_center_factor,
                      result |-> get_place_score(t, use_size_factor,
                                                 use_center_factor) ]
    /\ Unasked

call_first_by_service ==
    /\ query = NoQuery
    /\ \E service \in {"gplaces", "geocode"} :
           query' = [ call |-> "first_by_service", service |-> service,
                      result |-> first_by_service(locations[1], service) ]
    /\ Unasked

call_first_by_score ==
    /\ query = NoQuery
    /\ \E use_size_factor \in BOOLEAN, use_center_factor \in BOOLEAN,
          services \in { {"None"}, {"geocode"}, {"gplaces"} } :
           query' = [ call |-> "first_by_score",
                      use_size_factor |-> use_size_factor,
                      use_center_factor |-> use_center_factor,
                      services |-> services,
                      result |-> first_by_score(locations[1], use_size_factor,
                                                use_center_factor, services) ]
    /\ Unasked

call_place_full_strategy ==
    /\ query = NoQuery
    /\ query' = [ call |-> "place_full_strategy",
                  result |-> place_full_strategy(locations[_location]) ]
    /\ Unasked

NextPlace ==
    \/ call_get_place_name
    \/ call_get_place_score
    \/ call_first_by_service
    \/ call_first_by_score
    \/ call_place_full_strategy

SpecPlace == InitPlace /\ [][NextPlace]_vars

(***************************************************************************)
(* One candidate: the circle of a cluster against one viewport.            *)
(***************************************************************************)

GridPoints ==
    { <<600 * i, 600 * j>> : i, j \in (0 - MaxGridSteps)..MaxGridSteps }

\* The radius of a cluster of several pictures at one site, of a cluster of
\* one picture, and of a cluster of two pictures 2400 m apart.
CircleRadii == { 0, search_radius \div 10, 1200 }

InitCandidate ==
    /\ pc = "candidate"
    /\ all_pictures = <<>>
    /\ geo_clusters = <<>>
    /\ locations = <<>>
    /\ _location = 0
    /\ summary_rows = <<>>
    /\ cache = {}
    /\ query = NoQuery

\* _IntersectionAnalysis(circle_c, circle_r, rect_ne, rect_sw) and its three
\* methods.
call_IntersectionAnalysis ==
    /\ query = NoQuery
    /\ \E circle_c \in GridPoints, circle_r \in CircleRadii,
          rect_ne \in GridPoints, rect_sw \in GridPoints :
          /\ rect_sw[1] <= rect_ne[1]
          /\ rect_sw[2] <= rect_ne[2]
          /\ \E drawn \in points_in_circle_drawn(circle_c, circle_r, rect_ne, rect_sw) :
                 LET ia == IntersectionAnalysis(circle_c, circle_r, rect_ne,
                                                rect_sw, drawn)
                 IN  query' = [ call    |-> "_IntersectionAnalysis",
                                rect_ne |-> rect_ne,
                                rect_sw |-> rect_sw,
                                result  |-> ia,
                                get_size_ratio    |-> get_size_ratio(ia),
                                get_size_factor   |-> get_size_factor(ia),
                                get_center_factor |-> get_center_factor(ia) ]
    /\ Unasked

\* GeoTraits(center, radius, geo_service, geo_data) for the circle of a
\* cluster at (0, 0), a service name _geo_decode accepts and a record of
\* either provider, complete or not.
call_GeoTraits ==
    /\ query = NoQuery
    /\ \E radius \in CircleRadii,
          geo_service \in {"geocode", "gplaces", "nominatim"},
          recorded \in {"geocode", "gplaces"} :
       \E geo_data \in RawRecords(recorded) \cup {MalformedRecord(recorded)} :
          LET read == /\ geo_service \in {"geocode", "gplaces"}
                      /\ fields_read(geo_service) \subseteq DOMAIN geo_data
              draws == IF ~read THEN {0}
                       ELSE IF geo_service = "geocode"
                       THEN points_in_circle_drawn(<<0, 0>>, radius,
                                                   geo_data.viewport.northeast,
                                                   geo_data.viewport.southwest)
                       ELSE points_in_circle_drawn(<<0, 0>>, radius,
                                                   geo_data.viewport.high,
                                                   geo_data.viewport.low)
          IN  \E drawn \in draws :
                  query' = [ call        |-> "GeoTraits",
                             geo_service |-> geo_service,
                             geo_data    |-> geo_data,
                             result      |-> GeoTraits(<<0, 0>>, radius, geo_service,
                                                       geo_data, drawn) ]
    /\ Unasked

NextCandidate == call_IntersectionAnalysis \/ call_GeoTraits

SpecCandidate == InitCandidate /\ [][NextCandidate]_vars

(***************************************************************************)
(* The cache: lookups for the clusters of two pictures too far apart for   *)
(* one cluster, run after run.                                             *)
(***************************************************************************)

InitCache ==
    LET first  == PictureInfo(1, TRUE, <<0, 0>>)
        second == PictureInfo(2, TRUE, <<0, 3600>>)
    IN  /\ pc = "lookup"
        /\ all_pictures = << [first EXCEPT !.cluster = 1],
                             [second EXCEPT !.cluster = 2] >>
        /\ geo_clusters = << PictureCluster(1, first), PictureCluster(2, second) >>
        /\ locations = <<>>
        /\ _location = 0
        /\ summary_rows = <<>>
        /\ cache \in InitialCaches
        /\ query = NoQuery

\* _geo_decode(cluster, service)
call_geo_decode ==
    /\ pc = "lookup"
    /\ \E c \in 1..Len(geo_clusters), service \in {"geocode", "gplaces"} :
       \E out \in geo_decode(cache, geo_clusters[c], service) :
           /\ cache' = out.files
           /\ query' = [ call |-> "_geo_decode", cluster |-> c,
                         service |-> service, ok |-> out.ok,
                         called |-> out.called, loaded |-> out.loaded,
                         data |-> out.data ]
    /\ UNCHANGED <<pc, all_pictures, geo_clusters, locations, _location,
                   summary_rows>>

NextCache == call_geo_decode

SpecCache == InitCache /\ [][NextCache]_vars

(***************************************************************************)
(* Clustering (collect).                                                   *)
(***************************************************************************)

\* A step that processed one more picture file, and the picture it processed.
PictureAdded == Len(all_pictures') = Len(all_pictures) + 1
added == all_pictures'[Len(all_pictures')]

\* The positions of the clusters holding a picture.
ClustersOf(picture) ==
    { i \in 1..Len(geo_clusters) : Member(picture) \in geo_clusters[i].pictures }

\* The smallest element of a non-empty set of numbers.
Least(S) == CHOOSE x \in S : \A y \in S : x <= y

\* C1: a geotagged item goes to the first cluster, in creation order, that
\* is_in_range accepts, whatever the later clusters; only when none accepts
\* it a new cluster is created, holding this item alone.
C1_Step ==
    (PictureAdded /\ added.has_latlon) =>
        LET hits == { i \in 1..Len(geo_clusters) :
                          is_in_range(geo_clusters[i], added) }
        IN  IF hits # {}
            THEN /\ Len(geo_clusters') = Len(geo_clusters)
                 /\ added.cluster = Least(hits)
                 /\ geo_clusters'[Least(hits)].pictures =
                        geo_clusters[Least(hits)].pictures \cup {Member(added)}
                 /\ \A i \in 1..Len(geo_clusters) :
                        i # Least(hits) => geo_clusters'[i] = geo_clusters[i]
            ELSE /\ Len(geo_clusters') = Len(geo_clusters) + 1
                 /\ added.cluster = Len(geo_clusters')
                 /\ geo_clusters'[Len(geo_clusters')].pictures = {Member(added)}
                 /\ SubSeq(geo_clusters', 1, Len(geo_clusters)) = geo_clusters

C1_FirstFit == [][C1_Step]_vars

\* The last picture processed sits in a cluster although a later cluster,
\* also in range, had its center nearer to the picture.
C1_Witness ==
    /\ all_pictures # <<>>
    /\ LET p == all_pictures[Len(all_pictures)]
       IN  /\ p.has_latlon
           /\ p.cluster # 0
           /\ \E j \in 1..Len(geo_clusters) :
                  /\ j > p.cluster
                  /\ geo_clusters[p.cluster].pictures # {Member(p)}
                  /\ is_in_range(geo_clusters[j], p)
                  /\ get_distance(p, geo_clusters[j].center)
                        < get_distance(p,
                              new_center(geo_clusters[p.cluster].pictures
                                             \ {Member(p)}))

\* C2: the center of every non-empty cluster is the arithmetic mean of its
\* members' coordinates, latitude and longitude each on its own.
C2_CenterIsMean ==
    \A i \in 1..Len(geo_clusters) :
        LET c == geo_clusters[i]
            n == Cardinality(c.pictures)
        IN  n > 0 =>
                /\ n * c.center[1] =
                       SumOver(c.pictures, [p \in c.pictures |-> p.latlon[1]])
                /\ n * c.center[2] =
                       SumOver(c.pictures, [p \in c.pictures |-> p.latlon[2]])

\* A cluster of three members or more whose center is at none of them.
C2_Witness ==
    \E i \in 1..Len(geo_clusters) :
        /\ Cardinality(geo_clusters[i].pictures) >= 3
        /\ \A p \in geo_clusters[i].pictures : p.latlon # geo_clusters[i].center

\* C3: a cluster of exactly one member has radius search_radius / 10.
C3_SingletonRadius ==
    \A i \in 1..Len(geo_clusters) :
        Cardinality(geo_clusters[i].pictures) = 1 =>
            10 * geo_clusters[i].radius = search_radius

\* A cluster of one member next to a cluster of several, of another radius.
C3_Witness ==
    \E i, j \in 1..Len(geo_clusters) :
        /\ Cardinality(geo_clusters[i].pictures) = 1
        /\ Cardinality(geo_clusters[j].pictures) > 1
        /\ geo_clusters[j].radius # geo_clusters[i].radius

\* Every geotagged picture processed is a member of exactly one cluster, the
\* one it refers to, a picture without coordinates of none, and the clusters
\* hold processed pictures only.
Partitioned ==
    /\ \A k \in 1..Len(all_pictures) :
           LET p == all_pictures[k]
           IN  IF p.has_latlon
               THEN ClustersOf(p) = {p.cluster}
               ELSE ClustersOf(p) = {} /\ p.cluster = 0
    /\ \A i \in 1..Len(geo_clusters) :
           \A m \in geo_clusters[i].pictures :
               /\ m.file \in 1..Len(all_pictures)
               /\ Member(all_pictures[m.file]) = m

\* C4: clusters only grow and partition the processed geotagged items: no
\* step removes a member from a cluster or removes a cluster, and every
\* geotagged item processed is a member of exactly one cluster.
C4_Step ==
    /\ Len(geo_clusters') >= Len(geo_clusters)
    /\ \A i \in 1..Len(geo_clusters) :
           /\ geo_clusters'[i].name = geo_clusters[i].name
           /\ geo_clusters[i].pictures \subseteq geo_clusters'[i].pictures
    /\ Partitioned
    /\ Partitioned'

C4_GrowAndPartition == [][C4_Step]_vars

\* Two clusters, one of them grown to several members, and a picture without
\* coordinates beside them.
C4_Witness ==
    /\ Len(geo_clusters) >= 2
    /\ \E i \in 1..Len(geo_clusters) : Cardinality(geo_clusters[i].pictures) >= 2
    /\ \E k \in 1..Len(all_pictures) : ~all_pictures[k].has_latlon

\* C5: an item whose distance to the center of every existing cluster is
\* not less than max(search_radius, the cluster's radius) adds exactly one
\* cluster, a singleton of that item, and leaves every other cluster as it
\* was; two items farther apart than the search radius, processed first,
\* are in two clusters.
C5_Step ==
    /\ ( /\ PictureAdded
         /\ added.has_latlon
         /\ \A i \in 1..Len(geo_clusters) :
                ~( haversine(geo_clusters[i].center, added.latlon)
                       < max(search_radius, geo_clusters[i].radius) ) )
       => /\ Len(geo_clusters') = Len(geo_clusters) + 1
          /\ geo_clusters'[Len(geo_clusters')].pictures = {Member(added)}
          /\ SubSeq(geo_clusters', 1, Len(geo_clusters)) = geo_clusters
    /\ ( /\ PictureAdded
         /\ Len(all_pictures') = 2
         /\ all_pictures'[1].has_latlon
         /\ all_pictures'[2].has_latlon
         /\ haversine(all_pictures'[1].latlon, all_pictures'[2].latlon)
                > search_radius )
       => /\ Len(geo_clusters') = 2
          /\ all_pictures'[1].cluster # all_pictures'[2].cluster

C5_NoErroneousMerge == [][C5_Step]_vars

\* The last picture processed is alone in the newest cluster, beside an
\* older cluster that has grown to several members.
C5_Witness ==
    /\ all_pictures # <<>>
    /\ Len(geo_clusters) >= 2
    /\ LET p == all_pictures[Len(all_pictures)]
       IN  /\ p.has_latlon
           /\ geo_clusters[Len(geo_clusters)].pictures = {Member(p)}
    /\ \E i \in 1..Len(geo_clusters) : Cardinality(geo_clusters[i].pictures) >= 2

(***************************************************************************)
(* Pictures without coordinates.                                           *)
(***************************************************************************)

\* The picture the next turn of move()'s loop is about, when there is one.
MoveTurn == pc = "move" /\ Len(summary_rows) < Len(all_pictures)
turn == Len(summary_rows) + 1

\* C6: processing an item without coordinates never fails and leaves the
\* clustering as it was: collect() puts it in no cluster and creates or
\* changes no cluster, and move() names it by place_none, its place None,
\* asking no service and reading no location.
C6_Step ==
    /\ (PictureAdded /\ ~added.has_latlon) =>
          /\ geo_clusters' = geo_clusters
          /\ \A i \in 1..Len(geo_clusters') :
                 Member(added) \notin geo_clusters'[i].pictures
          /\ added.cluster = 0
          /\ pc' = "collect"
    /\ (MoveTurn /\ ~all_pictures[turn].has_latlon) =>
          /\ pc' = "move"
          /\ all_pictures'[turn].get_place_name = "place_none"
          /\ summary_rows' =
                 Append(summary_rows,
                        [file |-> turn, cluster |-> 0, place |-> None])
          /\ UNCHANGED <<geo_clusters, locations, _location, cache>>

C6_NoCoordinates == [][C6_Step]_vars

\* move() has finished a run of a geotagged picture, clustered and named,
\* and a picture without coordinates, in no cluster and without place.
C6_Witness ==
    /\ pc = "done"
    /\ Len(geo_clusters) = 1
    /\ \E k \in 1..Len(summary_rows) :
           /\ ~all_pictures[k].has_latlon
           /\ all_pictures[k].get_place_name = "place_none"
           /\ summary_rows[k].place = None
    /\ \E k \in 1..Len(summary_rows) :
           /\ all_pictures[k].has_latlon
           /\ summary_rows[k].place # None

(***************************************************************************)
(* The place name of a cluster.                                            *)
(***************************************************************************)

\* The selection one call of place_full_strategy makes: the positions, in
\* (a) first_by_service('gplaces'), (b) first_by_service('geocode'),
\* (c) first_by_score(center factor on, size factor off), of the
\* candidates that are there and have a place name.
C7_Picks(location) ==
    << first_by_service(location, "gplaces"),
       first_by_service(location, "geocode"),
       first_by_score(location, FALSE, TRUE, {"None"}) >>

C7_Named(location) ==
    { i \in 1..3 : /\ C7_Picks(location)[i] # NoTraits
                   /\ get_place_name(C7_Picks(location)[i]) # None }

\* The names of the selection without the repetitions of an earlier one, in
\* the order (a), (b), (c); the names are compared as written in ASCII.
RECURSIVE C7_Names(_, _)
C7_Names(location, i) ==
    IF i > 3 THEN <<>>
    ELSE LET name(k) == unidecode(get_place_name(C7_Picks(location)[k]))
         IN  IF /\ i \in C7_Named(location)
                /\ \A k \in C7_Named(location) : k < i => name(k) # name(i)
             THEN <<name(i)>> \o C7_Names(location, i + 1)
             ELSE C7_Names(location, i + 1)

\* C7: the final place name of a cluster is the place names of (a), (b) and
\* (c), in this order, of those that are not null, without duplicates, the
\* first occurrence kept, joined with ", ".
C7_FinalPlaceName ==
    query.call = "place_full_strategy" =>
        query.result = join(C7_Names(locations[_location], 1))

\* C8 as written, "first non-null wins", and as the code has it, "first
\* non-empty wins": the names in skipped are passed over at every step.
C8_ComponentName(t, it) ==
    LET tagged == { j \in 1..Len(t.address_chain) :
                        \E k \in 1..Len(t.address_chain[j].types) :
                            t.address_chain[j].types[k] = it }
    IN  IF tagged = {} THEN None ELSE t.address_chain[Least(tagged)].name

C8_Resolved(t, skipped) ==
    LET interesting == {"tourist_attraction", "point_of_interest", "locality"}
        priority    == <<"tourist_attraction", "point_of_interest", "locality">>
        own == { i \in 1..3 :
                    /\ \E k \in 1..Len(t.types) : t.types[k] = priority[i]
                    /\ C8_ComponentName(t, priority[i]) \notin skipped }
        any == { i \in 1..3 : C8_ComponentName(t, priority[i]) \notin skipped }
    IN  IF t.primary_type \in interesting /\ t.display_name \notin skipped
        THEN t.display_name
        ELSE IF own # {} THEN C8_ComponentName(t, priority[Least(own)])
        ELSE IF any # {} THEN C8_ComponentName(t, priority[Least(any)])
        ELSE None

\* C8 (as written): get_place_name resolves, first non-null wins, to (1) the
\* display name if the primary type is an interesting type, (2) else the
\* name of the first component of the address chain tagged with the first
\* interesting type, in priority order, that is in the candidate's own
\* types, (3) else the same without the restriction to its own types,
\* (4) else null.
C8_FirstNonNull ==
    query.call = "get_place_name" =>
        query.result = C8_Resolved(query.traits, {None})

\* C8 (amended): the same order, first non-empty wins: a display name or a
\* component name that is null or the empty text is passed over.
C8_FirstNonEmpty ==
    query.call = "get_place_name" =>
        query.result = C8_Resolved(query.traits, {None, <<>>})

\* get_place_name has passed over the empty display name of a candidate
\* whose primary type is an interesting type, and named it by its address
\* chain.
C8_Witness ==
    /\ query.call = "get_place_name"
    /\ query.traits.primary_type = "locality"
    /\ query.traits.display_name = <<>>
    /\ query.result # None
    /\ query.result # <<>>

\* The candidates first_by_score looks at: geocode's, then gplaces's.
C9_Candidates(location, services) ==
    (IF services = {"None"} \/ "geocode" \in services
     THEN location.geocode_traits ELSE <<>>)
    \o (IF services = {"None"} \/ "gplaces" \in services
        THEN location.gplaces_traits ELSE <<>>)

\* C9: first_by_score returns, of the candidates of the selected services
\* whose score under the flags is above 0, one of the highest score, the
\* earliest of them in geocode's candidates followed by gplaces's, and null
\* when no candidate scores above 0.
C9_FirstByScore ==
    query.call = "first_by_score" =>
        LET cands == C9_Candidates(locations[1], query.services)
            score(i) == get_place_score(cands[i], query.use_size_factor,
                                        query.use_center_factor)
            positive == { i \in 1..Len(cands) : score(i) > 0 }
            best == { i \in positive : \A j \in positive : score(i) >= score(j) }
        IN  IF positive = {} THEN query.result = NoTraits
            ELSE query.result = cands[Least(best)]

\* first_by_score over all services has returned a geocode candidate that
\* shares the highest score with another candidate, of gplaces.
C9_Witness ==
    /\ query.call = "first_by_score"
    /\ query.services = {"None"}
    /\ query.result # NoTraits
    /\ query.result.service = "geocode"
    /\ \E i \in 1..Len(locations[1].gplaces_traits) :
           get_place_score(locations[1].gplaces_traits[i],
                           query.use_size_factor, query.use_center_factor)
               = get_place_score(query.result, query.use_size_factor,
                                 query.use_center_factor)

\* C10: first_by_service(service) returns the earliest candidate of that
\* service, in the order of the provider's response, whose place name is not
\* null, null when the service has none, and never a candidate of the other
\* service.
C10_FirstByService ==
    query.call = "first_by_service" =>
        LET list  == IF query.service = "geocode"
                     THEN locations[1].geocode_traits
                     ELSE locations[1].gplaces_traits
            named == { i \in 1..Len(list) : get_place_name(list[i]) # None }
        IN  /\ IF named = {} THEN query.result = NoTraits
               ELSE query.result = list[Least(named)]
            /\ query.result # NoTraits => query.result.service = query.service

\* first_by_service has returned null for a service whose one candidate has
\* no place name, the other service having a candidate with one.
C10_Witness ==
    /\ query.call = "first_by_service"
    /\ query.result = NoTraits
    /\ LET own   == IF query.service = "geocode"
                    THEN locations[1].geocode_traits
                    ELSE locations[1].gplaces_traits
           other == IF query.service = "geocode"
                    THEN locations[1].gplaces_traits
                    ELSE locations[1].geocode_traits
       IN  /\ Len(own) = 1
           /\ Len(other) = 1
           /\ get_place_name(other[1]) # None

(***************************************************************************)
(* The score of a candidate.                                               *)
(***************************************************************************)

\* The candidate of the call with another primary type, all else equal.
C11_Other(primary_type) == [query.traits EXCEPT !.primary_type = primary_type]

\* The factors the call applies to the score, in hundredths.
C11_Factors ==
    << IF query.use_size_factor
       THEN get_size_factor(query.traits.intersection_analysis) ELSE 100,
       IF query.use_center_factor
       THEN get_center_factor(query.traits.intersection_analysis) ELSE 100 >>

\* C11 (as written): of two candidates identical but for the primary type,
\* tourist_attraction for one and locality for the other, get_place_score
\* of the first is strictly greater, whatever the two flags.
C11_TouristAboveLocality ==
    (query.call = "get_place_score"
        /\ query.traits.primary_type = "tourist_attraction") =>
        query.result > get_place_score(C11_Other("locality"),
                                       query.use_size_factor,
                                       query.use_center_factor)

\* C11 (amended): the score of the first is strictly greater when no factor
\* the flags apply is 0, and the two scores are both 0 when one is.
C11_TouristAboveLocalityUnlessZero ==
    (query.call = "get_place_score"
        /\ query.traits.primary_type = "tourist_attraction") =>
        LET other == get_place_score(C11_Other("locality"),
                                     query.use_size_factor,
                                     query.use_center_factor)
        IN  IF C11_Factors[1] # 0 /\ C11_Factors[2] # 0
            THEN query.result > other
            ELSE query.result = 0 /\ other = 0

\* A tourist attraction scored with both factors, neither of them 0 nor 1.
C11_Witness ==
    /\ query.call = "get_place_score"
    /\ query.traits.primary_type = "tourist_attraction"
    /\ query.use_size_factor
    /\ query.use_center_factor
    /\ C11_Factors[1] \in 1..99
    /\ C11_Factors[2] > 100
    /\ query.result > 0

(***************************************************************************)
(* The intersection analysis of a circle and a viewport.                   *)
(***************************************************************************)

\* C12: the status is exactly one of rect-inside-circle, circle-inside-rect,
\* not-intersecting and intersecting, the first in this order whose
\* condition holds: all four corners within the radius (<=) of the center;
\* the center within the bounds of the rectangle and the least of its four
\* distances to the edges >= the radius; the distance of the center to the
\* middle of the rectangle > the radius; nothing.
C12_Status ==
    query.call = "_IntersectionAnalysis" =>
        LET c  == query.result.circle_center
            r  == query.result.circle_radius
            ne == query.rect_ne
            sw == query.rect_sw
            corners_within ==
                \A lat \in {sw[1], ne[1]}, lon \in {sw[2], ne[2]} :
                    haversine(c, <<lat, lon>>) <= r
            center_within ==
                /\ sw[1] <= c[1] /\ c[1] <= ne[1]
                /\ sw[2] <= c[2] /\ c[2] <= ne[2]
            edges_beyond ==
                \A edge \in { <<ne[1], c[2]>>, <<sw[1], c[2]>>,
                              <<c[1], sw[2]>>, <<c[1], ne[2]>> } :
                    haversine(c, edge) >= r
            middle_beyond ==
                haversine(c, <<(sw[1] + ne[1]) \div 2, (sw[2] + ne[2]) \div 2>>) > r
            first == IF corners_within THEN 1
                     ELSE IF center_within /\ edges_beyond THEN 2
                     ELSE IF middle_beyond THEN 3
                     ELSE 4
        IN  query.result.status =
                << "rect-inside-circle", "circle-inside-rect",
                   "not-intersecting", "intersecting" >>[first]

\* A circle inside a rectangle of some area whose center is farther from
\* the middle of the rectangle than its radius: the second condition and
\* the third hold.
C12_Witness ==
    /\ query.call = "_IntersectionAnalysis"
    /\ query.result.status = "circle-inside-rect"
    /\ query.result.rect_area > 0
    /\ query.result.distance_to_center > query.result.circle_radius

\* x is n / d in hundredths, rounded up.
C13_IsHundredthsOf(x, n, d) == (x - 1) * d < 100 * n /\ 100 * n <= x * d

\* C13: get_size_factor is within [0, 1] for every status and every number
\* of random points in the circle: 0 when the size ratio is 0, the ratio
\* when it is at most 1, and 1 / ratio otherwise.
C13_SizeFactor ==
    query.call = "_IntersectionAnalysis" =>
        LET n == query.get_size_ratio[1]
            d == query.get_size_ratio[2]
            x == query.get_size_factor
        IN  /\ 0 <= x /\ x <= 100
            /\ n = 0 => x = 0
            /\ (0 < n /\ n <= d) => C13_IsHundredthsOf(x, n, d)
            /\ n > d => C13_IsHundredthsOf(x, d, n)

\* An intersecting pair whose estimated intersection area, from half of the
\* random points, is above the area of the circle.
C13_Witness ==
    /\ query.call = "_IntersectionAnalysis"
    /\ query.result.status = "intersecting"
    /\ query.result.points_in_circle = num_simulations \div 2
    /\ query.result.intersection_area > query.result.circle_area
    /\ query.get_size_factor \in 1..99

\* C14: get_center_factor is exactly 1 when distance_to_center is 0, and
\* for every other distance and every radius >= 0, the radius 0 of a
\* cluster of pictures at one site included, it is within (1, 2] (1 itself
\* where 1 + exp(...) rounds to it): it never lowers a score.
C14_CenterFactor ==
    query.call = "_IntersectionAnalysis" =>
        IF query.result.distance_to_center = 0
        THEN query.get_center_factor = 100
        ELSE 100 <= query.get_center_factor /\ query.get_center_factor <= 200

(***************************************************************************)
(* Loading the candidates of a cluster.                                    *)
(***************************************************************************)

\* The records of a list that have every field GeoTraits reads.
C15_Valid(service, data) ==
    { i \in 1..Len(data) : fields_read(service) \subseteq DOMAIN data[i] }

\* C15: a record of a response that lacks the viewport or an address field
\* is skipped, and the candidates are built from the other records of the
\* response; a cluster without any valid candidate has no place name and
\* the run goes on.  Stated of a turn of move() that loads the location of
\* a cluster and leaves one written cache file in its reach for each
\* service: the location is there after the turn, with one candidate for
\* each valid record of the two files.
C15_Step ==
    (/\ MoveTurn
     /\ all_pictures[turn].cluster # 0
     /\ \A i \in 1..Len(locations) :
            locations[i].cluster # all_pictures[turn].cluster
     /\ \A service \in {"geocode", "gplaces"} :
            \E f \in cache' :
                cache_files(cache', geo_clusters[all_pictures[turn].cluster],
                            service) = {f} /\ f.written)
    => /\ Len(locations') = Len(locations) + 1
       /\ \A service \in {"geocode", "gplaces"} :
              LET f == CHOOSE f \in cache_files(
                                  cache', geo_clusters[all_pictures[turn].cluster],
                                  service) : TRUE
                  loaded == locations'[Len(locations')]
              IN  Len(IF service = "geocode" THEN loaded.geocode_traits
                      ELSE loaded.gplaces_traits)
                      = Cardinality(C15_Valid(service, f.data))

C15_PartialFailureTolerance == [][C15_Step]_vars

\* C16: constructing a candidate with a service other than 'geocode' and
\* 'gplaces' fails with the not-implemented error, before any field of the
\* record is read (whatever fields it has) and without any intersection
\* analysis.
C16_NotImplemented ==
    (query.call = "GeoTraits"
        /\ query.geo_service \notin {"geocode", "gplaces"}) =>
        query.result = NotImplementedError

\* The constructor was called for 'nominatim' with a record that lacks the
\* viewport, and raised the not-implemented error.
C16_Witness ==
    /\ query.call = "GeoTraits"
    /\ query.geo_service = "nominatim"
    /\ "viewport" \notin DOMAIN query.geo_data
    /\ query.result = NotImplementedError

\* C17: the cache is read through.  A lookup for a cluster and a service
\* calls the provider only when the cache has no file for it, and after a
\* fetch that succeeded the response is stored; a later lookup for the same
\* center and service returns the stored records and does not call the
\* provider.
C17_Step ==
    (query' # query /\ query'.call = "_geo_decode") =>
        LET center == geo_clusters[query'.cluster].center
            hits   == { f \in cache :
                            /\ f.service = query'.service
                            /\ 4 * haversine(center, f.center) < search_radius }
        IN  /\ hits # {} => ~query'.called /\ cache' = cache
            /\ query'.called => hits = {}
            /\ (query'.called /\ query'.loaded) =>
                   [ center |-> center, service |-> query'.service,
                     written |-> TRUE, data |-> query'.data ] \in cache'
            /\ \A f \in cache :
                   (f.center = center /\ f.service = query'.service /\ f.written)
                       => /\ ~query'.called
                          /\ query'.loaded
                          /\ query'.data = f.data

C17_ReadThrough == [][C17_Step]_vars

\* A lookup has returned two 'gplaces' records from the cache without a
\* call of the provider: the folder had no such file when the run started,
\* an earlier lookup has fetched and stored them.
C17_Witness ==
    /\ query.call = "_geo_decode"
    /\ query.service = "gplaces"
    /\ ~query.called
    /\ query.loaded
    /\ query.ok
    /\ Len(query.data) = 2

\* C18: get_size_ratio and get_center_factor never divide by zero: for
\* every radius >= 0, 0 with its circle of area 0 and its sigma of 0
\* included, every rectangle, those of area 0 included, and every status,
\* both return a number.
C18_NoDivisionByZero ==
    query.call = "_IntersectionAnalysis" =>
        /\ query.get_size_ratio[2] # 0
        /\ query.get_size_ratio[1] >= 0
        /\ query.get_center_factor \in 0..200

\* A circle of radius 0 inside a rectangle of no width: the smaller area
\* and the sigma are both 0, the center is not the middle of the rectangle.
C18_Witness ==
    /\ query.call = "_IntersectionAnalysis"
    /\ query.result.circle_radius = 0
    /\ query.result.rect_area = 0
    /\ query.result.status = "circle-inside-rect"
    /\ query.result.distance_to_center # 0
    /\ query.get_size_ratio = <<0, 1>>

(***************************************************************************)
(* The range and the radius of a cluster.                                  *)
(***************************************************************************)

\* The distance of the picture added by the step to cluster i as it was
\* before, and the range of that cluster: the larger of the search radius
\* and its radius.
C19_Distance(i) == haversine(geo_clusters[i].center, added.latlon)
C19_Range(i) ==
    IF geo_clusters[i].radius > search_radius
    THEN geo_clusters[i].radius ELSE search_radius

\* C19: is_in_range is true iff the distance of the item to the center of
\* the cluster is strictly less than max(search radius, cluster radius): a
\* picture is taken by a cluster only below that distance, by none when it
\* is at or above it for all, that of an exactly equal distance included,
\* and a picture nearer than the search radius to a cluster is never
\* refused by it, whatever the cluster's radius.
C19_Step ==
    (PictureAdded /\ added.has_latlon) =>
        /\ \A i \in 1..Len(geo_clusters) :
               /\ added.cluster = i => C19_Distance(i) < C19_Range(i)
               /\ added.cluster > i => C19_Distance(i) >= C19_Range(i)
               /\ C19_Distance(i) < search_radius => added.cluster <= i
        /\ added.cluster \in 1..Len(geo_clusters')

C19_IsInRange == [][C19_Step]_vars

\* The last picture processed was taken by a cluster from whose center it
\* was not nearer than the search radius: it was within the cluster's
\* larger radius.
C19_Witness ==
    /\ all_pictures # <<>>
    /\ LET p == all_pictures[Len(all_pictures)]
       IN  /\ p.has_latlon
           /\ p.cluster # 0
           /\ LET before == geo_clusters[p.cluster].pictures \ {Member(p)}
              IN  /\ Cardinality(before) >= 2
                  /\ haversine(new_center(before), p.latlon) >= search_radius
                  /\ haversine(new_center(before), p.latlon)
                         < new_radius(before, new_center(before))

C20_Mean(c) ==
    SumOver(c.pictures, [p \in c.pictures |-> haversine(c.center, p.latlon)])
        \div Cardinality(c.pictures)

C21_After(clusters, picture) ==
    LET found == cluster_found(clusters, picture, 1)
    IN  IF found # 0
        THEN [clusters EXCEPT ![found] = add_picture(clusters[found], picture)]
        ELSE Append(clusters, PictureCluster(Len(clusters) + 1, picture))

\* The clusters collect() leaves after the pictures of order, processed one
\* after the other from no cluster at all.
RECURSIVE C21_Collect(_)
C21_Collect(order) ==
    IF order = <<>> THEN <<>>
    ELSE C21_After(C21_Collect(SubSeq(order, 1, Len(order) - 1)),
                   order[Len(order)])

\* The partition a list of clusters makes of the sites of its members.
C21_Partition(clusters) ==
    { { m.latlon : m \in clusters[i].pictures } : i \in 1..Len(clusters) }

\* The orders a set of three pictures, one to a site, can be scanned in.
C21_Orders(sites) ==
    { [k \in 1..3 |-> PictureInfo(k, TRUE, o[k])] :
          o \in { f \in [1..3 -> sites] : \A i, j \in 1..3 : f[i] = f[j] => i = j } }

\* The geotagged pictures processed so far, in scan order.
C21_Geotagged == SelectSeq(all_pictures, LAMBDA p : p.has_latlon)

\* There are three sites and two orders of the pictures taken at them whose
\* partitions into clusters differ.
C21_OrdersDiffer ==
    \E sites \in SUBSET PictureSites :
        /\ Cardinality(sites) = 3
        /\ \E first \in C21_Orders(sites), second \in C21_Orders(sites) :
               C21_Partition(C21_Collect(first))
                   # C21_Partition(C21_Collect(second))

\* A step of a clustering that depends on the order: it leaves the clusters
\* that the clusters before it and the picture it processed determine.
C21_Step ==
    /\ C21_OrdersDiffer
    /\ PictureAdded =>
           geo_clusters' = IF added.has_latlon
                           THEN C21_After(geo_clusters, added)
                           ELSE geo_clusters

C22_Count(tag, tags) == Cardinality({ k \in 1..Len(tags) : tags[k] = tag })

\* The points of a candidate for the interesting type of 0-based index i:
\* 1000 for the primary type, 100 for every such tag of the type list, 10
\* for every such tag of every component, all times 10 * (3 - i).
C22_Points(t, i) ==
    LET tag == <<"tourist_attraction", "point_of_interest", "locality">>[i + 1]
    IN  10 * (3 - i)
           * ( (IF t.primary_type = tag THEN 1000 ELSE 0)
               + 100 * C22_Count(tag, t.types)
               + 10 * SumSeq([c \in 1..Len(t.address_chain) |->
                                 C22_Count(tag, t.address_chain[c].types)]) )

\* C22: with both factors off get_place_score is the sum, over the three
\* interesting types, of the points above; use_size_factor multiplies it by
\* the size factor and use_center_factor by the center factor.  (Scores in
\* 1/10000, factors in hundredths, a factor that is off being 100.)
C22_PlaceScore ==
    query.call = "get_place_score" =>
        LET t     == query.traits
            total == C22_Points(t, 0) + C22_Points(t, 1) + C22_Points(t, 2)
        IN  query.result =
                total
                * (IF query.use_size_factor
                   THEN get_size_factor(t.intersection_analysis) ELSE 100)
                * (IF query.use_center_factor
                   THEN get_center_factor(t.intersection_analysis) ELSE 100)

\* A candidate scored with both factors off that has points of all three
\* kinds, for its primary type, for a tag of another priority in its type
\* list and for a tag of a component.
C22_Witness ==
    /\ query.call = "get_place_score"
    /\ ~query.use_size_factor
    /\ ~query.use_center_factor
    /\ query.traits.primary_type = "tourist_attraction"
    /\ C22_Count("point_of_interest", query.traits.types) = 1
    /\ \E c \in 1..Len(query.traits.address_chain) :
           C22_Count("locality", query.traits.address_chain[c].types) = 1
    /\ query.result = (30000 + 3000 + 2000 + 100) * 100 * 100

(***************************************************************************)
(* The estimate of the overlap.                                            *)
(***************************************************************************)

\* The condition circle-inside-rect of the call recorded: the center within
\* the bounds of the rectangle and no edge nearer to it than the radius.
C23_CircleInsideRect ==
    LET c  == query.result.circle_center
        r  == query.result.circle_radius
        ne == query.rect_ne
        sw == query.rect_sw
    IN  /\ sw[1] <= c[1] /\ c[1] <= ne[1]
        /\ sw[2] <= c[2] /\ c[2] <= ne[2]
        /\ \A edge \in { <<ne[1], c[2]>>, <<sw[1], c[2]>>,
                         <<c[1], sw[2]>>, <<c[1], ne[2]>> } :
               haversine(c, edge) >= r

\* C23: the number of sample points counted in the circle is within
\* 0..1000 and the intersection area, that fraction of the rectangle's
\* area, within 0 and the rectangle's area; when the condition
\* circle-inside-rect holds the number used is 1 at least and the
\* intersection area a thousandth of the rectangle's area at least.  (Areas
\* in whole units, rounded down.)
C23_MonteCarlo ==
    query.call = "_IntersectionAnalysis" =>
        LET ia == query.result
        IN  /\ ia.points_in_circle \in 0..1000
            /\ 0 <= ia.intersection_area
            /\ ia.intersection_area <= ia.rect_area
            /\ 1000 * ia.intersection_area <= ia.points_in_circle * ia.rect_area
            /\ ia.points_in_circle * ia.rect_area < 1000 * (ia.intersection_area + 1)
            /\ C23_CircleInsideRect =>
                   /\ ia.points_in_circle >= 1
                   /\ ia.intersection_area >= ia.rect_area \div 1000

\* A circle of one point inside a rectangle of some area: no sample point
\* can have hit it, and the number used is 1.
C23_Witness ==
    /\ query.call = "_IntersectionAnalysis"
    /\ C23_CircleInsideRect
    /\ query.result.circle_radius = 0
    /\ query.result.rect_area > 0
    /\ query.result.points_in_circle = 1

(***************************************************************************)
(* The area of a viewport.                                                 *)
(***************************************************************************)

\* C24: the area of the rectangle is its height times its width, the
\* height being the distance of sw to the point (ne.lat, sw.lon), which
\* depends on the span of latitude alone, and the width the distance of
\* sw.lon to ne.lon at the middle latitude; a rectangle with sw.lat = ne.lat
\* has the area 0.  (Areas in units of 100 m2, rounded down.)
C24_RectArea ==
    query.call = "_IntersectionAnalysis" =>
        LET sw      == query.rect_sw
            ne      == query.rect_ne
            height  == haversine(sw, <<ne[1], sw[2]>>)
            mid_lat == (sw[1] + ne[1]) \div 2
            width   == haversine(<<mid_lat, sw[2]>>, <<mid_lat, ne[2]>>)
        IN  /\ query.result.rect_area = (height * width) \div 100
            /\ sw[1] = ne[1] => query.result.rect_area = 0

(***************************************************************************)
(* The name of a scored candidate.                                         *)
(***************************************************************************)

\* C25: a candidate whose score is above 0 has a place name, so that every
\* candidate first_by_score returns has one, and place_full_strategy never
\* post-processes a null name: it does not fail on a list of well-formed
\* candidates.
C25_ScoredHasName ==
    /\ (query.call = "get_place_score" /\ query.result > 0) =>
           get_place_name(query.traits) # None
    /\ (query.call = "first_by_score" /\ query.result # NoTraits) =>
           get_place_name(query.result) # None
    /\ query.call = "place_full_strategy" => query.result # Raised

(***************************************************************************)
(* The drift of a center.                                                  *)
(***************************************************************************)

\* The members of cluster i farther from its center than its range allows
\* a new picture to be.
C26_Outside(i) ==
    { m \in geo_clusters[i].pictures :
          ~( haversine(m.latlon, geo_clusters[i].center)
                 < max(search_radius, geo_clusters[i].radius) ) }

\* C26 (as written): after any sequence of first-fit assignments every
\* member of every cluster is within the range of the cluster's current
\* center: its distance to it is below max(search radius, cluster radius).
C26_MembersInRange ==
    \A i \in 1..Len(geo_clusters) : C26_Outside(i) = {}

\* C26 (amended): a picture is within the range of a cluster's center when
\* it is added to it, the center and the radius being those before the
\* addition; the later additions move the center and change the radius
\* without looking at the members again, and every member stays, within
\* the range of the current center or not.
C26_Step ==
    (PictureAdded /\ added.has_latlon) =>
        /\ added.cluster \in 1..Len(geo_clusters) =>
               haversine(added.latlon, geo_clusters[added.cluster].center)
                   < max(search_radius, geo_clusters[added.cluster].radius)
        /\ \A i \in 1..Len(geo_clusters) :
               geo_clusters'[i].pictures =
                   geo_clusters[i].pictures
                       \cup (IF added.cluster = i THEN {Member(added)} ELSE {})

C26_InRangeWhenAdded == [][C26_Step]_vars

\* The first picture of a cluster of six is farther from the center, moved
\* by the later pictures, than the range of the cluster.
C26_Witness ==
    \E i \in 1..Len(geo_clusters) :
        /\ Cardinality(geo_clusters[i].pictures) = 6
        /\ \E m \in C26_Outside(i) : m.file = 1

(***************************************************************************)
(* A provider that fails.                                                  *)
(***************************************************************************)

\* C27: a lookup that misses the cache and whose provider call raises
\* leaves the cache folder as it was, without a file for that center and
\* service; a later lookup for the same cluster and service, finding no
\* stored response, calls the provider again and neither fails on a stored
\* file nor returns one.
C27_Step ==
    (query' # query /\ query'.call = "_geo_decode") =>
        LET center == geo_clusters[query'.cluster].center
            stored == { f \in cache :
                            /\ f.service = query'.service
                            /\ 4 * haversine(center, f.center) < search_radius
                            /\ f.written }
        IN  /\ (query'.called /\ ~query'.loaded) =>
                   /\ cache' = cache
                   /\ \A f \in cache' :
                          ~(f.center = center /\ f.service = query'.service)
            /\ stored = {} => query'.called

C27_FailureLeavesNoEntry == [][C27_Step]_vars

(***************************************************************************)
(* Shapes that do not intersect.                                           *)
(***************************************************************************)

\* The coordinate of the interval lo..hi nearest to x.
C28_Clamp(x, lo, hi) == IF x < lo THEN lo ELSE IF x > hi THEN hi ELSE x

\* C28: when the status is not-intersecting the circle and the rectangle
\* have no point in common: the point of the rectangle nearest to the
\* center of the circle, and so every point of it, is farther from the
\* center than the radius.
C28_NotIntersecting ==
    (query.call = "_IntersectionAnalysis"
        /\ query.result.status = "not-intersecting") =>
        LET c       == query.result.circle_center
            nearest == << C28_Clamp(c[1], query.rect_sw[1], query.rect_ne[1]),
                          C28_Clamp(c[2], query.rect_sw[2], query.rect_ne[2]) >>
        IN  haversine(c, nearest) > query.result.circle_radius

(***************************************************************************)
(* The clusters the locations are loaded for.                              *)
(***************************************************************************)

\* Every candidate of every location carries the center and the radius of
\* its cluster, and its intersection analysis is that of their circle.
C29_OfFinalClusters ==
    \A i \in 1..Len(locations) :
        LET cluster == geo_clusters[locations[i].cluster]
        IN  \A t \in candidates(locations[i]) :
                /\ t.center = cluster.center
                /\ t.radius = cluster.radius
                /\ t.intersection_analysis.circle_center = cluster.center
                /\ t.intersection_analysis.circle_radius = cluster.radius

\* C29: the locations are loaded for the final clusters, once for each.
\* From the first PictureLocation on no step adds a picture to a cluster or
\* changes one; no two locations are of one cluster; and the candidates of
\* every location are analysed against the center and the radius their
\* cluster has when clustering has ended.
C29_Step ==
    /\ locations # <<>> => geo_clusters' = geo_clusters
    /\ Len(locations') > Len(locations) =>
           /\ pc = "move"
           /\ geo_clusters' = geo_clusters
    /\ \A i, j \in 1..Len(locations') :
           locations'[i].cluster = locations'[j].cluster => i = j
    /\ C29_OfFinalClusters'

C29_LoadedOncePerFinalCluster == [][C29_Step]_vars

\* A run has ended in which the two pictures of one cluster were named from
\* one location, loaded, with its candidates, for the circle of the two.
C29_Witness ==
    /\ pc = "done"
    /\ Len(summary_rows) = 2
    /\ Len(geo_clusters) = 1
    /\ Cardinality(geo_clusters[1].pictures) = 2
    /\ Len(locations) = 1
    /\ candidates(locations[1]) # {}
    /\ \A t \in candidates(locations[1]) :
           /\ t.radius = geo_clusters[1].radius
           /\ t.radius # search_radius \div 10

(***************************************************************************)
(* The location a place name is resolved against.                          *)
(***************************************************************************)

\* The locations, after the step, of the cluster of the picture of the turn.
C30_Own ==
    { i \in 1..Len(locations') :
          locations'[i].cluster = all_pictures[turn].cluster }

\* C30: when the destination name and the summary row of a picture of a
\* cluster are computed, _location, the variable the strategy reads, is
\* bound to the location of the picture's own cluster, and the place of
\* the row is the one place_full_strategy resolves against that location;
\* a turn that fails on the name fails on the name of that location.
C30_Step ==
    (MoveTurn /\ all_pictures[turn].cluster # 0) =>
        /\ Len(summary_rows') = Len(summary_rows) + 1 =>
               /\ all_pictures'[turn].get_place_name = "place_full_strategy"
               /\ _location' \in C30_Own
               /\ \A i \in C30_Own :
                      summary_rows'[turn].place = place_full_strategy(locations'[i])
               /\ summary_rows'[turn].cluster = all_pictures[turn].cluster
        /\ (pc' = "failed" /\ C30_Own # {}) =>
               \A i \in C30_Own : place_full_strategy(locations'[i]) = Raised

C30_OwnClusterLocation == [][C30_Step]_vars

\* A run has ended that named two pictures of two clusters, the second from
\* the location of its own cluster: the two places differ.
C30_Witness ==
    /\ pc = "done"
    /\ Len(summary_rows) = 2
    /\ Len(locations) = 2
    /\ _location = 2
    /\ summary_rows[1].cluster # summary_rows[2].cluster
    /\ summary_rows[1].place # summary_rows[2].place
    /\ summary_rows[2].place = place_full_strategy(locations[2])
    /\ summary_rows[2].place # <<>>

====
